---- MODULE Spec2Model ----
(***************************************************************************)
(* Model of the narration queue of src/src/voice-audio.ts and of the       *)
(* pencil stroke engine of src/src/pencil-audio.ts that ducks under it.    *)
(*                                                                         *)
(* One action is one synchronous stretch of JavaScript: a call of an       *)
(* exported function, or the continuation of a processQueue invocation     *)
(* from the await it is suspended on up to its next await (or its exit).   *)
(* Entries are named by their submission index 1, 2, 3, ...                *)
(***************************************************************************)
EXTENDS Integers, Sequences, FiniteSets

\* ---------------------------------------------------------------- bounds
MaxEntries == 3     \* enqueueTTS calls in one behaviour
MaxClears == 2      \* clearVoiceQueue calls in one behaviour
MaxStrokes == 3     \* pencil strokes triggered in one behaviour
PencilEntries == 1  \* enqueueTTS calls in a behaviour of PencilSpec

Entries == 1..MaxEntries

\* ---------------------------------------------------------------- state
VARIABLES
  queue,          \* const queue: QueueEntry[]           (entry indices, head first)
  processing,     \* let processing                      (re-entrancy guard)
  generation,     \* let generation
  activeSource,   \* let activeSource                    (0 = null, else the entry whose node it is)
  voicePlaying,   \* let _voicePlaying
  muted,          \* let muted
  audioCtx,       \* let audioCtx: "null" | "suspended" | "running"
  masterGain,     \* let masterGain: -1 = null, else masterGain.gain.value
  submitted,      \* number of enqueueTTS calls so far
  fetchPromise,   \* entry.fetchPromise: "none" | "pending" | "rejected" | the fulfilled value
  aborted,        \* entry.abortController.signal.aborted
  passes,         \* the processQueue invocations suspended at an await
  node,           \* the AudioBufferSourceNode made for an entry
  signals,        \* per entry, the calls of onStarted / onFinished in order
  playLog,        \* entries in the order of their source.start(0)
  audibleFor,     \* entries for which setVoicePlayingState(true) was called
  path,           \* per entry, the code path that fired its finished signal
  clearedUpTo,    \* value of submitted at the last clearVoiceQueue
  ready           \* entries whose pass has its post-fetch continuation queued (microtasks)

\* State of src/src/pencil-audio.ts.  Gain values are in thousandths.
VARIABLES
  initialized,      \* let initialized
  initPromise,      \* let initPromise: "null" | "pending" | "settled"
  softBuffer,       \* let softBuffer                    (TRUE = decoded buffer, FALSE = null)
  pencilMasterGain, \* let pencilMasterGain: -1 = null, else pencilMasterGain.gain.value
  pencilRamp,       \* target of the ramp scheduled on pencilMasterGain.gain, -1 = none
  ambientActive,    \* let ambientActive
  ambientInterval,  \* let ambientInterval              (TRUE = a timer is pending)
  pencilResume,     \* a ctx.resume() called by a stroke has not settled
  strokes           \* number of stroke nodes started so far

pvars == << initialized, initPromise, softBuffer, pencilMasterGain, pencilRamp,
            ambientActive, ambientInterval, pencilResume, strokes >>

vars == << queue, processing, generation, activeSource, voicePlaying, muted,
           audioCtx, masterGain, submitted, fetchPromise, aborted, passes,
           node, signals, playLog, audibleFor, path, clearedUpTo, ready,
           initialized, initPromise, softBuffer, pencilMasterGain, pencilRamp,
           ambientActive, ambientInterval, pencilResume, strokes >>

\* Lines 29-30 of pencil-audio.ts, in thousandths.
NORMAL_VOLUME == 1000
DUCKED_VOLUME == 250

\* Line 75 of pencil-audio.ts: the 0.01 of Math.abs(current - target) > 0.01.
Tolerance == 10

\* Values pencilMasterGain.gain.value is observed at: the two levels, a value
\* within the tolerance of each, and one half way along a ramp.
GainLevels == {250, 255, 625, 995, 1000}

\* Values a fetch promise can be fulfilled with: null, "" and a non-empty
\* base64 string.
FetchValues == {"null", "empty", "audio"}

\* !base64Audio in JavaScript: null and "" are both falsy.
Falsy(b) == b = "null" \/ b = "empty"

\* base64Audio.length of a string value.
StrLen(b) == IF b = "empty" THEN 0 ELSE 1

Settled(e) == fetchPromise[e] \in FetchValues \cup {"rejected"}

\* Nodes that are sounding: started, and neither ended nor stopped.
Sounding == {e \in Entries : node[e] = "playing"}

TypeOK ==
  /\ queue \in Seq(Entries)
  /\ processing \in BOOLEAN
  /\ generation \in 0..MaxClears
  /\ activeSource \in 0..MaxEntries
  /\ voicePlaying \in BOOLEAN
  /\ muted \in BOOLEAN
  /\ audioCtx \in {"null", "suspended", "running"}
  /\ masterGain \in {-1, 0, 1}
  /\ submitted \in 0..MaxEntries
  /\ fetchPromise \in [Entries -> {"none", "pending", "rejected"} \cup FetchValues]
  /\ aborted \in [Entries -> BOOLEAN]
  /\ passes \subseteq [entry : Entries, pc : {"fetch", "resume", "decode", "ended"},
                       myGeneration : 0..MaxClears]
  /\ node \in [Entries -> {"none", "created", "playing", "stopped", "ended"}]
  /\ signals \in [Entries -> Seq({"started", "finished"})]
  /\ playLog \in Seq(Entries)
  /\ audibleFor \subseteq Entries
  /\ path \in [Entries -> {"none", "played", "skipped", "staleFetch", "staleDecode",
                           "failed", "cleared"}]
  /\ clearedUpTo \in 0..MaxEntries
  /\ ready \in Seq(Entries)
  /\ initialized \in BOOLEAN
  /\ initPromise \in {"null", "pending", "settled"}
  /\ softBuffer \in BOOLEAN
  /\ pencilMasterGain \in {-1} \cup GainLevels
  /\ pencilRamp \in {-1, DUCKED_VOLUME, NORMAL_VOLUME}
  /\ ambientActive \in BOOLEAN
  /\ ambientInterval \in BOOLEAN
  /\ pencilResume \in BOOLEAN
  /\ strokes \in 0..MaxStrokes

Init ==
  /\ queue = << >>
  /\ processing = FALSE
  /\ generation = 0
  /\ activeSource = 0
  /\ voicePlaying = FALSE
  /\ muted = FALSE
  /\ audioCtx = "null"
  /\ masterGain = -1
  /\ submitted = 0
  /\ fetchPromise = [e \in Entries |-> "none"]
  /\ aborted = [e \in Entries |-> FALSE]
  /\ passes = {}
  /\ node = [e \in Entries |-> "none"]
  /\ signals = [e \in Entries |-> << >>]
  /\ playLog = << >>
  /\ audibleFor = {}
  /\ path = [e \in Entries |-> "none"]
  /\ clearedUpTo = 0
  /\ ready = << >>
  /\ initialized = FALSE
  /\ initPromise = "null"
  /\ softBuffer = FALSE
  /\ pencilMasterGain = -1
  /\ pencilRamp = -1
  /\ ambientActive = FALSE
  /\ ambientInterval = FALSE
  /\ pencilResume = FALSE
  /\ strokes = 0

\* ------------------------------------------------------- pure helpers

\* Mutant of NoAudio: the empty string is not treated as missing audio.
NoAudioNullOnly(b) == b = "null"

\* Line 120: if (!base64Audio || base64Audio.length === 0)
NoAudio(b) == Falsy(b) \/ StrLen(b) = 0

\* Lines 103-108: the value of base64Audio after the awaited fetch: a rejected
\* fetch is caught and leaves the initial null.
Base64Audio(e) == IF fetchPromise[e] = "rejected" THEN "null" ELSE fetchPromise[e]

\* Mutant of Stale: the generation is never compared.
StaleNever(p) == FALSE

\* Lines 100, 111, 139: generation !== myGeneration
Stale(p) == generation # p.myGeneration

\* Line 102: queue.shift() leaves the rest of the queue.
Shift(q) == Tail(q)

\* Mutant of BailAfterFetch: the bail-out forgets onStarted.
BailAfterFetchFinishedOnly(s) == Append(s, "finished")

\* Lines 112-113: the callbacks fired when the pass bails out after the fetch.
BailAfterFetch(s) == s \o << "started", "finished" >>

\* Mutant of BailAfterDecode: the bail-out fires onStarted a second time.
BailAfterDecodeBoth(s) == s \o << "started", "finished" >>

\* Lines 139-141: the callback fired when the pass bails out after the decode.
BailAfterDecode(s) == Append(s, "finished")

\* Lines 220-221: the callbacks clearVoiceQueue fires for a queued entry.
ClearedSignals(s) == s \o << "started", "finished" >>

\* Mutant of GuardAfterClear: clearVoiceQueue leaves the guard as it is.
GuardAfterClearKept == processing

\* Line 226: the value clearVoiceQueue gives the re-entrancy guard.
GuardAfterClear == FALSE

\* Lines 168-169: the value the finally block gives the re-entrancy guard.
GuardAfterFinally == FALSE

InQueue(e) == \E i \in 1..Len(queue) : queue[i] = e

\* Mutant of FactoryResult: enqueueTTS stores the factory without calling it.
FactoryNotCalled(r) == "none"

\* Line 188: fetchPromise = fetchAudio(abortController.signal); r is the state
\* of the promise the factory hands back.
FactoryResult(r) == r

\* ------------------------------------------------ processQueue building blocks

\* `await entry.fetchPromise` on a promise that has already settled queues the
\* continuation as a microtask at once; on a pending one, the settlement does.
AwaitFetch(rdy, e) == IF Settled(e) THEN Append(rdy, e) ELSE rdy

\* Lines 20-33: ensureAudioGraph. st is the state a new AudioContext starts in.
EnsureAudioGraph(st) ==
  /\ audioCtx' = IF audioCtx = "null" THEN st ELSE audioCtx
  /\ masterGain' = IF masterGain = -1 THEN (IF muted THEN 0 ELSE 1) ELSE masterGain

\* Lines 168-171: the pass leaves through its finally block.
Finally(p, rdy) ==
  /\ passes' = passes \ {p}
  /\ processing' = GuardAfterFinally
  /\ voicePlaying' = FALSE
  /\ queue' = queue
  /\ ready' = rdy

\* Lines 98-105: back at the head of the while loop, with _voicePlaying = vp:
\* dequeue the next entry and suspend on its fetch, or leave the loop.
Continue(p, vp, rdy) ==
  IF queue # << >> /\ ~Stale(p)
  THEN /\ queue' = Shift(queue)
       /\ passes' = (passes \ {p}) \cup
                      {[entry |-> Head(queue), pc |-> "fetch", myGeneration |-> p.myGeneration]}
       /\ processing' = processing
       /\ voicePlaying' = vp
       /\ ready' = AwaitFetch(rdy, Head(queue))
  ELSE Finally(p, rdy)

\* The pass suspends at the await named pc, still holding its entry.
Suspend(p, pc, vp, rdy) ==
  /\ passes' = (passes \ {p}) \cup {[p EXCEPT !.pc = pc]}
  /\ UNCHANGED << queue, processing >>
  /\ voicePlaying' = vp
  /\ ready' = rdy

\* Lines 161-166: the catch block around decode and playback.
Catch(p, sigs, rdy) ==
  /\ activeSource' = 0
  /\ signals' = [sigs EXCEPT ![p.entry] = Append(@, "finished")]
  /\ path' = [path EXCEPT ![p.entry] = "failed"]
  /\ Continue(p, FALSE, rdy)

\* Lines 130-136: atob either throws (caught at once) or the pass suspends
\* on decodeAudioData.
BeginDecode(p, atobOk, sigs, rdy) ==
  IF atobOk
  THEN /\ Suspend(p, "decode", voicePlaying, rdy)
       /\ signals' = sigs
       /\ UNCHANGED << activeSource, path >>
  ELSE Catch(p, sigs, rdy)

\* ---------------------------------------------------------------- actions

\* Lines 186-201 and, through the call at line 199, lines 93-105. r is the
\* state of the promise the caller's factory returns: pending, or settled
\* already (a cached or disabled narration).
EnqueueTTS(r) ==
  /\ submitted < MaxEntries
  /\ LET e == submitted + 1
         q == Append(queue, e)
     IN /\ submitted' = e
        /\ fetchPromise' = [fetchPromise EXCEPT ![e] = FactoryResult(r)]
        /\ IF processing
           THEN /\ queue' = q
                /\ UNCHANGED << processing, passes, ready >>
           ELSE /\ processing' = TRUE
                /\ queue' = Shift(q)
                /\ passes' = passes \cup
                     {[entry |-> Head(q), pc |-> "fetch", myGeneration |-> generation]}
                /\ ready' = IF fetchPromise'[Head(q)] \in FetchValues \cup {"rejected"}
                            THEN Append(ready, Head(q)) ELSE ready
  /\ UNCHANGED << generation, activeSource, voicePlaying, muted, audioCtx, masterGain,
                  aborted, node, signals, playLog, audibleFor, path, clearedUpTo >>
  /\ UNCHANGED pvars

\* The fetch started by the caller's factory settles; the pass awaiting it,
\* if any, has its continuation queued.
FetchSettle(e, r) ==
  /\ fetchPromise[e] = "pending"
  /\ fetchPromise' = [fetchPromise EXCEPT ![e] = r]
  /\ ready' = IF \E p \in passes : p.entry = e /\ p.pc = "fetch"
              THEN Append(ready, e) ELSE ready
  /\ UNCHANGED << queue, processing, generation, activeSource, voicePlaying, muted,
                  audioCtx, masterGain, submitted, aborted, passes, node, signals,
                  playLog, audibleFor, path, clearedUpTo >>
  /\ UNCHANGED pvars

\* Lines 105-136: the pass resumes from `await entry.fetchPromise`; queued
\* continuations run first in, first out.
AfterFetch(p, st, atobOk) ==
  /\ p \in passes
  /\ p.pc = "fetch"
  /\ ready # << >>
  /\ Head(ready) = p.entry
  /\ LET e == p.entry
         rdy == Tail(ready)
         started == [signals EXCEPT ![e] = Append(@, "started")]
     IN IF Stale(p)
        THEN /\ signals' = [signals EXCEPT ![e] = BailAfterFetch(@)]
             /\ path' = [path EXCEPT ![e] = "staleFetch"]
             /\ Finally(p, rdy)
             /\ UNCHANGED << activeSource, audioCtx, masterGain >>
        ELSE IF NoAudio(Base64Audio(e))
        THEN /\ signals' = [started EXCEPT ![e] = Append(@, "finished")]
             /\ path' = [path EXCEPT ![e] = "skipped"]
             /\ Continue(p, voicePlaying, rdy)
             /\ UNCHANGED << activeSource, audioCtx, masterGain >>
        ELSE /\ EnsureAudioGraph(st)
             /\ IF audioCtx' = "suspended"
                THEN /\ Suspend(p, "resume", voicePlaying, rdy)
                     /\ signals' = started
                     /\ UNCHANGED << activeSource, path >>
                ELSE BeginDecode(p, atobOk, started, rdy)
  /\ UNCHANGED << generation, muted, submitted, fetchPromise, aborted, node, playLog,
                  audibleFor, clearedUpTo >>
  /\ UNCHANGED pvars

\* Lines 126-136: ctx.resume() settles (a task of the event loop, so no
\* continuation is queued) and the pass resumes from the await.
AfterResume(p, resumed, atobOk) ==
  /\ p \in passes
  /\ p.pc = "resume"
  /\ ready = << >>
  /\ audioCtx' = IF resumed THEN "running" ELSE audioCtx
  /\ BeginDecode(p, atobOk, signals, ready)
  /\ UNCHANGED << generation, muted, masterGain, submitted, fetchPromise, aborted, node,
                  playLog, audibleFor, clearedUpTo >>
  /\ UNCHANGED pvars

\* Lines 136-157 and 161-166: decodeAudioData settles (a task) and the pass
\* resumes from the await.
AfterDecode(p, decoded, played) ==
  /\ p \in passes
  /\ p.pc = "decode"
  /\ ready = << >>
  /\ LET e == p.entry
     IN IF ~decoded
        THEN /\ Catch(p, signals, ready)
             /\ UNCHANGED << node, playLog, audibleFor >>
        ELSE IF Stale(p)
        THEN /\ signals' = [signals EXCEPT ![e] = BailAfterDecode(@)]
             /\ path' = [path EXCEPT ![e] = "staleDecode"]
             /\ Finally(p, ready)
             /\ UNCHANGED << activeSource, node, playLog, audibleFor >>
        ELSE /\ audibleFor' = audibleFor \cup {e}
             /\ IF played
                THEN /\ node' = [node EXCEPT ![e] = "playing"]
                     /\ activeSource' = e
                     /\ playLog' = Append(playLog, e)
                     /\ Suspend(p, "ended", TRUE, ready)
                     /\ UNCHANGED << signals, path >>
                ELSE /\ node' = [node EXCEPT ![e] = "created"]
                     /\ playLog' = playLog
                     /\ Catch(p, signals, ready)
  /\ UNCHANGED << generation, muted, audioCtx, masterGain, submitted, fetchPromise,
                  aborted, clearedUpTo >>
  /\ UNCHANGED pvars

\* Lines 150-154 and 159-160: the node's 'ended' event (a task: the natural
\* end, or the end that follows stop()) runs onended and the pass resumes.
Ended(p) ==
  /\ p \in passes
  /\ p.pc = "ended"
  /\ ready = << >>
  /\ node[p.entry] \in {"playing", "stopped"}
  /\ node' = [node EXCEPT ![p.entry] = "ended"]
  /\ activeSource' = IF activeSource = p.entry THEN 0 ELSE activeSource
  /\ signals' = [signals EXCEPT ![p.entry] = Append(@, "finished")]
  /\ path' = [path EXCEPT ![p.entry] = "played"]
  /\ Continue(p, FALSE, ready)
  /\ UNCHANGED << generation, muted, audioCtx, masterGain, submitted, fetchPromise,
                  aborted, playLog, audibleFor, clearedUpTo >>
  /\ UNCHANGED pvars

\* Lines 208-228.
ClearVoiceQueue ==
  /\ generation < MaxClears
  /\ generation' = generation + 1
  /\ node' = IF activeSource # 0 /\ node[activeSource] = "playing"
             THEN [node EXCEPT ![activeSource] = "stopped"]
             ELSE node
  /\ activeSource' = 0
  /\ aborted' = [e \in Entries |-> aborted[e] \/ InQueue(e)]
  /\ signals' = [e \in Entries |-> IF InQueue(e) THEN ClearedSignals(signals[e])
                                                ELSE signals[e]]
  /\ path' = [e \in Entries |-> IF InQueue(e) THEN "cleared" ELSE path[e]]
  /\ queue' = << >>
  /\ processing' = GuardAfterClear
  /\ voicePlaying' = FALSE
  /\ clearedUpTo' = submitted
  /\ UNCHANGED << muted, audioCtx, masterGain, submitted, fetchPromise, passes, playLog,
                  audibleFor, ready >>
  /\ UNCHANGED pvars

\* Mutant of SetVoiceMuted: muting also switches the audible signal off.
SetVoiceMutedStops(m) ==
  /\ muted' = m
  /\ masterGain' = IF masterGain # -1 THEN (IF m THEN 0 ELSE 1) ELSE masterGain
  /\ voicePlaying' = FALSE
  /\ UNCHANGED << queue, processing, generation, activeSource, audioCtx,
                  submitted, fetchPromise, aborted, passes, node, signals, playLog,
                  audibleFor, path, clearedUpTo, ready >>
  /\ UNCHANGED pvars

\* Mutant of GainFor: setVoiceMuted flips the gain instead of setting it.
GainForToggle(m, g) == IF g # -1 THEN 1 - g ELSE g

\* Lines 58-60: if (masterGain) masterGain.gain.value = muted ? 0 : 1; g is the
\* gain value, -1 while the node does not exist.
GainFor(m, g) == IF g # -1 THEN (IF m THEN 0 ELSE 1) ELSE g

\* Lines 56-61.
SetVoiceMuted(m) ==
  /\ muted' = m
  /\ masterGain' = GainFor(m, masterGain)
  /\ UNCHANGED << queue, processing, generation, activeSource, voicePlaying, audioCtx,
                  submitted, fetchPromise, aborted, passes, node, signals, playLog,
                  audibleFor, path, clearedUpTo, ready >>
  /\ UNCHANGED pvars

\* Lines 36-43: getAudioContext / getAnalyserNode build the graph on first use.
GetAudioContext(st) ==
  /\ EnsureAudioGraph(st)
  /\ UNCHANGED << queue, processing, generation, activeSource, voicePlaying, muted,
                  submitted, fetchPromise, aborted, passes, node, signals, playLog,
                  audibleFor, path, clearedUpTo, ready >>
  /\ UNCHANGED pvars

CtxStates == {"suspended", "running"}

FetchOutcomes == FetchValues \cup {"rejected"}

Next ==
  \/ EnqueueTTS("pending")
  \/ \E r \in FetchOutcomes : EnqueueTTS(r)
  \/ \E e \in Entries, r \in FetchOutcomes : FetchSettle(e, r)
  \/ \E p \in passes, st \in CtxStates, ok \in BOOLEAN : AfterFetch(p, st, ok)
  \/ \E p \in passes, resumed \in BOOLEAN, ok \in BOOLEAN : AfterResume(p, resumed, ok)
  \/ \E p \in passes, decoded \in BOOLEAN, played \in BOOLEAN : AfterDecode(p, decoded, played)
  \/ \E p \in passes : Ended(p)
  \/ ClearVoiceQueue
  \/ \E m \in BOOLEAN : SetVoiceMuted(m)
  \/ \E st \in CtxStates : GetAudioContext(st)

Spec == Init /\ [][Next]_vars

\* ---------------------------------------------------------------- pencil audio

\* Math.abs.
Abs(x) == IF x < 0 THEN 0 - x ELSE x

\* Line 73: isVoicePlaying() ? DUCKED_VOLUME : NORMAL_VOLUME.
Target(vp) == IF vp THEN DUCKED_VOLUME ELSE NORMAL_VOLUME

\* Line 75: Math.abs(current - target) > 0.01.
NeedsRamp(current, target) == Abs(current - target) > Tolerance

\* Lines 70-79, updateDucking: the ramp scheduled on the master gain when it
\* returns.  With no master gain yet it returns at line 71.
UpdateDucking ==
  IF pencilMasterGain = -1
  THEN pencilRamp
  ELSE IF NeedsRamp(pencilMasterGain, Target(voicePlaying))
       THEN Target(voicePlaying)
       ELSE pencilRamp

\* Lines 32-40, getMasterGain: the gain value of the node it returns.
GetMasterGain == IF pencilMasterGain = -1 THEN NORMAL_VOLUME ELSE pencilMasterGain

\* Lines 84-108 and 145-187, the body common to playAmbientStroke and
\* playStroke past their guards: updateDucking, getAudioContext, a resume
\* request if the context is suspended, getMasterGain, source.start.
StartStroke(st) ==
  /\ pencilRamp' = UpdateDucking
  /\ EnsureAudioGraph(st)
  /\ pencilResume' = (pencilResume \/ audioCtx' = "suspended")
  /\ pencilMasterGain' = GetMasterGain
  /\ strokes' = strokes + 1

\* Everything of voice-audio.ts but the audio graph.
voiceRest == << queue, processing, generation, activeSource, voicePlaying, muted,
                submitted, fetchPromise, aborted, passes, node, signals, playLog,
                audibleFor, path, clearedUpTo, ready >>

\* Lines 53-65 and 42-50: the first initPencilAudio call runs up to the await
\* of decodeAudioData; atob may throw, which the catch at line 60 swallows.
InitPencilAudio(st, atobOk) ==
  /\ ~initialized
  /\ initPromise = "null"
  /\ EnsureAudioGraph(st)
  /\ initPromise' = IF atobOk THEN "pending" ELSE "settled"
  /\ UNCHANGED << initialized, softBuffer, pencilMasterGain, pencilRamp, ambientActive,
                  ambientInterval, pencilResume, strokes >>
  /\ UNCHANGED voiceRest

\* Lines 58-62: decodeAudioData settles.
InitDecoded(ok) ==
  /\ initPromise = "pending"
  /\ initPromise' = "settled"
  /\ softBuffer' = ok
  /\ initialized' = ok
  /\ UNCHANGED << pencilMasterGain, pencilRamp, ambientActive, ambientInterval,
                  pencilResume, strokes, audioCtx, masterGain >>
  /\ UNCHANGED voiceRest

\* Lines 143-194.
PlayStroke(st) ==
  /\ strokes < MaxStrokes
  /\ initialized
  /\ softBuffer
  /\ StartStroke(st)
  /\ UNCHANGED << initialized, initPromise, softBuffer, ambientActive, ambientInterval >>
  /\ UNCHANGED voiceRest

\* Lines 82-114, called from scheduleNext (line 126).
PlayAmbientStroke(st) ==
  IF initialized /\ softBuffer
  THEN StartStroke(st)
  ELSE UNCHANGED << pencilRamp, audioCtx, masterGain, pencilResume, pencilMasterGain,
                    strokes >>

\* Lines 120-131: the first scheduleNext runs inside the call.
StartChalkAmbient(st) ==
  /\ strokes < MaxStrokes
  /\ ~ambientActive
  /\ ambientActive' = TRUE
  /\ PlayAmbientStroke(st)
  /\ ambientInterval' = TRUE
  /\ UNCHANGED << initialized, initPromise, softBuffer >>
  /\ UNCHANGED voiceRest

\* Lines 124-129: the timer set at line 128 fires.
ScheduleNext(st) ==
  /\ strokes < MaxStrokes
  /\ ambientInterval
  /\ ambientActive
  /\ PlayAmbientStroke(st)
  /\ UNCHANGED << initialized, initPromise, softBuffer, ambientActive, ambientInterval >>
  /\ UNCHANGED voiceRest

\* Lines 134-140.
StopChalkAmbient ==
  /\ ambientActive \/ ambientInterval
  /\ ambientActive' = FALSE
  /\ ambientInterval' = FALSE
  /\ UNCHANGED << initialized, initPromise, softBuffer, pencilMasterGain, pencilRamp,
                  pencilResume, strokes, audioCtx, masterGain >>
  /\ UNCHANGED voiceRest

\* Lines 76-77: time passes and the gain moves along the scheduled ramp to the
\* value v, which lies between the current value and the target.
RampAdvances(v) ==
  /\ pencilRamp # -1
  /\ pencilMasterGain # -1
  /\ v # pencilMasterGain
  /\ IF pencilMasterGain < pencilRamp
     THEN pencilMasterGain < v /\ v <= pencilRamp
     ELSE pencilRamp <= v /\ v < pencilMasterGain
  /\ pencilMasterGain' = v
  /\ pencilRamp' = IF v = pencilRamp THEN -1 ELSE pencilRamp
  /\ UNCHANGED << initialized, initPromise, softBuffer, ambientActive, ambientInterval,
                  pencilResume, strokes, audioCtx, masterGain >>
  /\ UNCHANGED voiceRest

\* Lines 88 and 156: the ctx.resume() a stroke asked for settles.
PencilResumeSettles(resumed) ==
  /\ pencilResume
  /\ pencilResume' = FALSE
  /\ audioCtx' = IF resumed THEN "running" ELSE audioCtx
  /\ UNCHANGED << initialized, initPromise, softBuffer, pencilMasterGain, pencilRamp,
                  ambientActive, ambientInterval, strokes, masterGain >>
  /\ UNCHANGED voiceRest

\* The narration steps of a behaviour with at most PencilEntries entries and
\* no clearVoiceQueue or setVoiceMuted call.
Narration ==
  /\ Next
  /\ submitted' <= PencilEntries
  /\ generation' = generation
  /\ muted' = muted

PencilNext ==
  \/ Narration
  \/ \E st \in CtxStates, ok \in BOOLEAN : InitPencilAudio(st, ok)
  \/ \E ok \in BOOLEAN : InitDecoded(ok)
  \/ \E st \in CtxStates : PlayStroke(st)
  \/ \E st \in CtxStates : StartChalkAmbient(st)
  \/ \E st \in CtxStates : ScheduleNext(st)
  \/ StopChalkAmbient
  \/ \E v \in GainLevels : RampAdvances(v)
  \/ \E resumed \in BOOLEAN : PencilResumeSettles(resumed)

\* Pencil strokes alongside one narration entry.
PencilSpec == Init /\ [][PencilNext]_vars

\* ---------------------------------------------------------------- fairness

\* The continuations the event loop runs once the awaited fetch, decode or
\* 'ended' event of the pass holding entry e has completed.
PassStep(e) ==
  \E p \in passes :
    /\ p.entry = e
    /\ \/ \E st \in CtxStates, ok \in BOOLEAN : AfterFetch(p, st, ok)
       \/ \E decoded \in BOOLEAN, played \in BOOLEAN : AfterDecode(p, decoded, played)
       \/ Ended(p)

\* The continuation after ctx.resume() settles.
ResumeStep(e) ==
  \E p \in passes, resumed \in BOOLEAN, ok \in BOOLEAN :
    p.entry = e /\ AfterResume(p, resumed, ok)

\* Every fetch settles, every decode settles, every started node emits 'ended'.
Fairness ==
  \A e \in Entries :
    /\ WF_vars(\E r \in FetchOutcomes : FetchSettle(e, r))
    /\ WF_vars(PassStep(e))

\* Every ctx.resume() promise settles.
ResumeSettles == \A e \in Entries : WF_vars(ResumeStep(e))

\* The behaviours in which fetches, decodes and 'ended' events complete;
\* nothing is assumed of ctx.resume().
LiveSpec == Init /\ [][Next]_vars /\ Fairness

\* ---------------------------------------------------------------- properties

Fired(e, sig) == \E i \in 1..Len(signals[e]) : signals[e][i] = sig

Count(e, sig) == Cardinality({i \in 1..Len(signals[e]) : signals[e][i] = sig})

HeldAt(e, pc) == \E p \in passes : p.entry = e /\ p.pc = pc

\* C1: entries that are played start playing in submission order: the
\* sequence of source.start(0) calls is increasing in submission index.
C1_PlaybackInSubmissionOrder ==
  \A i, j \in 1..Len(playLog) : i < j => playLog[i] < playLog[j]

\* C2: at most one narration playback node is started and neither ended nor
\* stopped, in every reachable state.
C2_AtMostOneSounding == Cardinality(Sounding) <= 1

\* C3: once clearVoiceQueue has returned, no step starts a playback node for
\* an entry submitted before that call.
C3_NoPlaybackOfClearedEntries ==
  [][Len(playLog') > Len(playLog) => playLog'[Len(playLog')] > clearedUpTo]_vars

\* C3 witness: an entry submitted before a clear had audio, was decoded after
\* the clear, and the pass bailed out instead of playing it.
C3_Witness ==
  \E e \in Entries :
    /\ e <= clearedUpTo
    /\ fetchPromise[e] = "audio"
    /\ path[e] = "staleDecode"
    /\ node[e] = "none"

\* C4: from the moment clearVoiceQueue returns, every entry submitted before
\* the call has both its started and its finished signal fired (signals are
\* never unfired, so this is an invariant over the entries up to the last
\* clear).
C4_ClearFiresAllSignals ==
  \A e \in 1..clearedUpTo : Fired(e, "started") /\ Fired(e, "finished")

\* C5: isVoicePlaying() is true in exactly the states where a narration node
\* has been started and has neither ended nor been stopped.
C5_AudibleIffSounding == voicePlaying <=> (Sounding # {})

\* C6: in the state right after clearVoiceQueue returns no narration node is
\* sounding and the active-playback handle is null.
C6_ClearStopsPlayback ==
  [][generation' # generation =>
       /\ activeSource' = 0
       /\ \A e \in Entries : node'[e] # "playing"]_vars

\* C7 as stated: assuming only that fetches, decodes and 'ended' events
\* complete (LiveSpec), every submitted entry eventually has both its started
\* and its finished signal fired.
C7_EverySubmittedEntrySignalled ==
  \A e \in Entries :
    (e <= submitted) ~> (Fired(e, "started") /\ Fired(e, "finished"))

\* C7, amended: assuming also that every ctx.resume() call settles, every
\* submitted entry eventually has both its started and finished signal fired.
C7_SignalledIfResumeSettles ==
  ResumeSettles => C7_EverySubmittedEntrySignalled

\* C7 witness: an entry submitted after a clear, while the pass of the old
\* generation was still suspended, has been played to its end.
C7_Witness ==
  \E e \in Entries :
    /\ clearedUpTo > 0
    /\ e > clearedUpTo
    /\ path[e] = "played"
    /\ signals[e] = << "started", "finished" >>

\* C8: no entry has its finished signal fired before its started signal.
C8_StartedBeforeFinished ==
  \A e \in Entries :
    \A i \in 1..Len(signals[e]) :
      signals[e][i] = "finished" => \E j \in 1..(i - 1) : signals[e][j] = "started"

\* C8 witness: entries have been finished by the stale bail-out after the
\* fetch, by removal in clearVoiceQueue and by normal playback.
C8_Witness ==
  /\ \E e \in Entries : path[e] = "staleFetch" /\ Fired(e, "finished")
  /\ \E e \in Entries : path[e] = "cleared" /\ Fired(e, "finished")
  /\ \E e \in Entries : path[e] = "played" /\ Fired(e, "finished")

\* C9: each entry's onStarted is invoked at most once and its onFinished at
\* most once.
C9_SignalsFireAtMostOnce ==
  \A e \in Entries : Count(e, "started") <= 1 /\ Count(e, "finished") <= 1

\* C9 witness: a clear ran while a pass held one entry (awaiting its decode)
\* and another entry was queued; both have since been signalled.
C9_Witness ==
  \E e1, e2 \in Entries :
    /\ e1 <= clearedUpTo /\ e2 <= clearedUpTo
    /\ path[e1] = "staleDecode" /\ Count(e1, "finished") = 1
    /\ path[e2] = "cleared" /\ Count(e2, "started") = 1

NoData == {"null", "empty", "rejected"}

\* C10: an entry whose fetch resolved with null or "" or rejected never has
\* the audible signal set for it and never gets a playback node, and once the
\* pass holding it has resumed from the fetch both its signals are fired.
C10_NoDataIsSkipped ==
  \A e \in Entries :
    fetchPromise[e] \in NoData =>
      /\ e \notin audibleFor
      /\ node[e] = "none"
      /\ (~InQueue(e) /\ ~HeldAt(e, "fetch") => signals[e] = << "started", "finished" >>)

\* C10 witness: one entry was skipped by a live pass after its fetch rejected
\* and another after its fetch resolved with the empty string.
C10_Witness ==
  \E e1, e2 \in Entries :
    /\ fetchPromise[e1] = "rejected" /\ path[e1] = "skipped"
    /\ fetchPromise[e2] = "empty" /\ path[e2] = "skipped"

\* C11: a failure of one entry (no audio, a fetch, decode or playback error)
\* in a pass no clearVoiceQueue has made stale does not end the pass: with
\* entries queued behind it, the same pass dequeues the head of the queue and
\* awaits its fetch, and the re-entrancy guard is still set.
C11_FailureDoesNotEndPass ==
  [][\A p \in passes :
       ( /\ ~Stale(p)
         /\ path[p.entry] = "none"
         /\ path'[p.entry] \in {"skipped", "failed"}
         /\ queue # << >> )
       => /\ queue' = Tail(queue)
          /\ [entry |-> Head(queue), pc |-> "fetch", myGeneration |-> p.myGeneration]
               \in passes'
          /\ processing']_vars

\* C11 without the guard: the same pass goes on with the next queued entry.
C11_PassGoesOn ==
  [][\A p \in passes :
       ( /\ ~Stale(p)
         /\ path[p.entry] = "none"
         /\ path'[p.entry] \in {"skipped", "failed"}
         /\ queue # << >> )
       => /\ queue' = Tail(queue)
          /\ [entry |-> Head(queue), pc |-> "fetch", myGeneration |-> p.myGeneration]
               \in passes']_vars

\* C12: from the moment clearVoiceQueue returns, every entry submitted before
\* the call whose fetch has not settled has had its AbortController aborted,
\* the queued entries and the one the loop had already dequeued alike (an
\* abort is never undone and a settled fetch never becomes pending again, so
\* this is an invariant over the entries up to the last clear).
C12_ClearAbortsUnsettledFetches ==
  \A e \in 1..clearedUpTo : fetchPromise[e] = "pending" => aborted[e]

\* C13: the fetch of every submitted entry has been started by the
\* enqueueTTS call that submitted it: no submitted entry, queued or dequeued,
\* is without a fetch promise, whatever the state of the processing loop.
C13_FetchStartsAtSubmission ==
  \A e \in Entries : e <= submitted => fetchPromise[e] # "none"

\* C13 witness: while one clip is playing, two entries wait in the queue and
\* the fetch of the one behind the head has already settled.
C13_Witness ==
  /\ \E p \in passes : p.pc = "ended" /\ node[p.entry] = "playing"
  /\ Len(queue) = 2
  /\ fetchPromise[queue[1]] = "pending"
  /\ fetchPromise[queue[2]] = "audio"

\* C14: a step that changes the mute flag, or the value of an existing
\* master gain, is a setVoiceMuted call and changes nothing else: the queue,
\* the generation, the guard, the active-playback handle, the audible signal,
\* the passes and their queued continuations, and every entry's fetch, abort
\* flag, node and started/finished signals stay as they are.
C14_MuteChangesOnlyMuteAndGain ==
  [][(muted' # muted \/ (masterGain # -1 /\ masterGain' # masterGain)) =>
       UNCHANGED << queue, generation, processing, activeSource, voicePlaying, audioCtx,
                    submitted, fetchPromise, aborted, passes, ready, node, signals,
                    playLog >>]_vars

\* C14 witness: narration was muted on an existing graph and is processed all
\* the same: one entry has been played to its end, the next is sounding and
\* another waits in the queue.
C14_Witness ==
  /\ muted /\ masterGain = 0
  /\ \E e \in Entries : path[e] = "played"
  /\ Sounding # {}
  /\ queue # << >>

\* C15: setVoiceMuted(true) is idempotent, and clearVoiceQueue on an idle
\* state only increments the generation.  After any setVoiceMuted(true) step a
\* second call would write the values already there (the flag is true and the
\* gain is the one the call computes from it); a clearVoiceQueue step taken
\* with an empty queue, no pass in flight and nothing sounding leaves the
\* queue, the audible signal, the guard, the active-playback handle and every
\* entry's signals unchanged.
C15_MuteTwiceAndClearOnIdle ==
  [][/\ SetVoiceMuted(TRUE) => (muted' /\ GainFor(TRUE, masterGain') = masterGain')
     /\ (generation' # generation /\ queue = << >> /\ passes = {} /\ Sounding = {})
          => /\ generation' = generation + 1
             /\ UNCHANGED << queue, voicePlaying, processing, activeSource, signals >>]_vars

\* C15 witness: the queue was cleared with nothing ever submitted, and the
\* voice is muted on an existing graph.
C15_Witness ==
  /\ generation >= 1 /\ submitted = 0
  /\ muted /\ masterGain = 0

\* C16: at most one instance of the processing loop exists at a time, an
\* instance suspended at an await included.
C16_AtMostOnePass == Cardinality(passes) <= 1

\* C17: the guard is true whenever a pass of the current generation is live,
\* and at most one pass of the current generation is live.
C17_GuardCoversCurrentPass ==
  /\ (\E p \in passes : ~Stale(p)) => processing
  /\ Cardinality({p \in passes : ~Stale(p)}) <= 1

\* C17, the audible signal: a step in which no pass of the current generation
\* reaches line 144, finishes its clip or exits, and which is not a
\* clearVoiceQueue call, leaves the audible signal alone.
C17_StaleExitKeepsAudible ==
  [][(/\ generation' = generation
      /\ \E p \in passes : Stale(p) /\ p \notin passes'
      /\ \A p \in passes : ~Stale(p) => p \in passes')
       => voicePlaying' = voicePlaying]_vars

\* The events of entry e alone complete: its fetch settles, its ctx.resume()
\* settles, its decode settles and its node emits 'ended'.  Continuations
\* already queued as microtasks run, whichever entry they belong to; nothing is
\* assumed of the fetch, resume, decode or 'ended' event of any other entry.
EventsOf(e) ==
  /\ WF_vars(\E r \in FetchOutcomes : FetchSettle(e, r))
  /\ WF_vars(PassStep(e))
  /\ WF_vars(ResumeStep(e))
  /\ \A d \in Entries :
       WF_vars(\E p \in passes, st \in CtxStates, ok \in BOOLEAN :
                 p.entry = d /\ AfterFetch(p, st, ok))

\* Entry e is the first one submitted after the last clearVoiceQueue.
FirstAfterClear(e) == generation > 0 /\ e = clearedUpTo + 1 /\ e = submitted

\* C18: the first enqueueTTS after a clearVoiceQueue starts a fresh pass in
\* the same step: when it returns the guard is set, the queue is empty again
\* and a pass that captured the current generation holds the new entry at its
\* fetch.  If the events of that entry complete, its started and finished
\* signals fire, whatever becomes of the passes of earlier generations.
C18_FreshPassAfterClear ==
  /\ [][(submitted' = submitted + 1 /\ generation > 0 /\ submitted = clearedUpTo) =>
          /\ [entry |-> submitted', pc |-> "fetch", myGeneration |-> generation]
               \in passes'
          /\ processing'
          /\ queue' = << >>
          /\ fetchPromise'[submitted'] # "none"]_vars
  /\ \A e \in Entries :
       EventsOf(e) =>
         (FirstAfterClear(e) ~> (Fired(e, "started") /\ Fired(e, "finished")))

\* C18 witness: an entry submitted right after a clear has been played to its
\* end and signalled while the pass of the old generation is still suspended
\* at its fetch, which has not settled.
C18_Witness ==
  \E e \in Entries, p \in passes :
    /\ Stale(p) /\ p.pc = "fetch" /\ fetchPromise[p.entry] = "pending"
    /\ e = clearedUpTo + 1
    /\ path[e] = "played"
    /\ signals[e] = << "started", "finished" >>

\* C19: every stroke ducks to the level matching isVoicePlaying() at that
\* moment.  In a step that starts a stroke node, the pencil master gain ends
\* within 0.01 of the target (0.25 while narration is audible, else 1.0) or
\* has a ramp to the target scheduled, the first stroke included; and no ramp
\* is scheduled when the gain was already within 0.01 of the target.
C19_EveryStrokeDucks ==
  [][strokes' = strokes + 1 =>
       /\ \/ Abs(pencilMasterGain' - Target(voicePlaying)) <= Tolerance
          \/ pencilRamp' = Target(voicePlaying)
       /\ (pencilMasterGain # -1 /\ ~NeedsRamp(pencilMasterGain, Target(voicePlaying)))
            => pencilRamp' = pencilRamp]_vars

\* C19 for the strokes that find the master gain already created.
C19_LaterStrokesDuck ==
  [][(strokes' = strokes + 1 /\ pencilMasterGain # -1) =>
       /\ \/ Abs(pencilMasterGain' - Target(voicePlaying)) <= Tolerance
          \/ pencilRamp' = Target(voicePlaying)
       /\ ~NeedsRamp(pencilMasterGain, Target(voicePlaying))
            => pencilRamp' = pencilRamp]_vars

====
